---- MODULE Spec2Model ----
\* Model of the render state and scheduler of yocto_trace (src/unnamed/part_000):
\* parallel_for_batch, trace_sample, make_trace_state, trace_samples,
\* trace_start, trace_cancel, trace_done and the sampler dispatch.
\*
\* Floating point accumulators are modelled as exact rationals <<num, den>>;
\* the per-pixel random number generator is a small linear congruential
\* generator; one integrator call is a deterministic function of the pixel's
\* generator state that may also raise (vector growth in the path loop).
EXTENDS Integers, Sequences, FiniteSets, TLC

\* ---------------------------------------------------------------------------
\* Bounds
\* ---------------------------------------------------------------------------
Width      == 1      \* image columns   (state.render.size()[0])
Height     == 2      \* image rows      (state.render.size()[1])
MaxThreads == 2      \* largest value of std::thread::hardware_concurrency()
MaxBatch   == 2      \* largest params.batch
MaxSamples == 2      \* params.samples, the sample target
MaxFaults  == 1      \* number of integrator calls that may raise in one run
RngMod     == 8      \* size of the generator state space

Pixels   == (0 .. Width - 1) \X (0 .. Height - 1)
Workers  == 1 .. MaxThreads
Slots    == 1 .. 2        \* background tasks that can be alive at once
Batches  == 0 .. 2        \* parallel_for_batch activations: 0 = synchronous

NoKind   == "none"                       \* trace_sample returned normally
NoExc    == [kind |-> NoKind, by |-> 0]  \* no exception object
Samplers == {"path", "pathdirect", "pathmis", "pathtest", "lightsampling",
             "naive", "eyelight", "furnace", "falsecolor"}

\* ---------------------------------------------------------------------------
\* Rational arithmetic for the accumulators
\* ---------------------------------------------------------------------------
RECURSIVE Gcd(_, _)
Gcd(a, b) == IF b = 0 THEN a ELSE Gcd(b, a % b)

Abs(x) == IF x < 0 THEN -x ELSE x

Norm(n, d) ==
  LET g == Gcd(Abs(n), d) IN IF n = 0 THEN <<0, 1>> ELSE <<n \div g, d \div g>>

Zero == <<0, 1>>

\* lerp(a, b, 1 / (sample + 1)) with a rational a and an integer b
lerp(a, b, sample) == Norm(a[1] * sample + b * a[2], a[2] * (sample + 1))

\* ---------------------------------------------------------------------------
\* Random number generator (one per pixel)
\* ---------------------------------------------------------------------------
advance_rng(rng) ==
  [state |-> (rng.state * 5 + rng.inc) % RngMod, inc |-> rng.inc]

make_rng(seed, seq) ==
  LET r0 == [state |-> 0, inc |-> (2 * seq + 1) % RngMod]
      r1 == advance_rng(r0)
      r2 == [r1 EXCEPT !.state = (r1.state + seed) % RngMod]
  IN  advance_rng(r2)

\* rand2f draws two numbers
rand2f(rng) == advance_rng(advance_rng(rng))

\* ---------------------------------------------------------------------------
\* Integrators, abstracted: one call returns radiance, hit, albedo and
\* normal as functions of the camera ray and of what it draws from the
\* pixel's generator.
\* ---------------------------------------------------------------------------
FalseColors == {"position", "normal", "frontfacing", "gnormal", "gfrontfacing",
                "mtype", "texcoord", "color", "emission", "roughness",
                "opacity", "metallic", "delta", "element", "instance", "shape",
                "material", "highlight"}

NonFinite == -1      \* a radiance with a NaN or infinite component
has_environment == TRUE     \* !scene.environments.empty()
params_clamp == 2    \* params.clamp, scaled to the integer radiance range

\* the stochastic integrators (trace_path ... trace_furnace) draw from rng
trace_path(ray, rng) ==
  LET r == advance_rng(rng)
      v == r.state
  IN  [rng      |-> r,
       radiance |-> IF v = RngMod - 1 THEN NonFinite ELSE v \div 2,
       hit      |-> v % 2 = 0,
       albedo   |-> v % 3,
       normal   |-> 1,
       exc      |-> NoKind]

\* trace_falsecolor: no hit returns the empty result; otherwise the switch
\* over params.falsecolor, whose default branch yields black
trace_falsecolor(params, ray, rng) ==
  IF ray = 0
  THEN [rng |-> rng, radiance |-> 0, hit |-> FALSE, albedo |-> 0, normal |-> 0,
        exc |-> NoKind]
  ELSE [rng      |-> rng,
        radiance |-> IF params.falsecolor \in FalseColors THEN 1 ELSE 0,
        hit      |-> TRUE,
        albedo   |-> 1,
        normal   |-> 1,
        exc      |-> NoKind]

\* get_trace_sampler_func: the dispatch raises for a value outside the enum
get_trace_sampler_func(params) ==
  IF params.sampler \in Samplers THEN params.sampler ELSE "sampler unknown"

\* is_sampler_lit: the second dispatch table over the same enum
is_sampler_lit(params) ==
  CASE params.sampler \in {"path", "pathdirect", "pathmis", "naive", "furnace"}
         -> "true"
    [] params.sampler \in {"eyelight", "falsecolor"} -> "false"
    [] OTHER -> "sampler unknown"

\* the call through the function pointer the dispatch returned
sampler(params, ray, rng) ==
  IF get_trace_sampler_func(params) = "falsecolor"
  THEN trace_falsecolor(params, ray, rng)
  ELSE trace_path(ray, rng)

\* ---------------------------------------------------------------------------
\* trace_sample: one sample of one pixel.  `fault` says whether the
\* integrator raises in this call (the volume stack of the path loop grows).
\* Returns the new render state and the kind of exception that leaves the
\* call (NoKind when it returns normally).
\* ---------------------------------------------------------------------------
\* variant: the radiance is taken as the integrator returned it
finite_or_zero_not(radiance) == radiance

\* if (!isfinite(radiance)) radiance = {0, 0, 0};
finite_or_zero(radiance) == IF radiance = NonFinite THEN 0 ELSE radiance

\* if (max(radiance) > params.clamp)
\*   radiance = radiance * (params.clamp / max(radiance));
clamp_radiance(radiance) ==
  IF radiance > params_clamp THEN params_clamp ELSE radiance

\* variant: one generator shared by every pixel
pixel_rng_shared(state, ij) == state.rngs[<<0, 0>>]

\* state.rngs[ij]: the generator the sample draws from
pixel_rng(state, ij) == state.rngs[ij]

\* what the three branches of trace_sample feed to lerp: a hit, a miss
\* that shows the environment, a miss that shows nothing
contribution(res, rad, ray, params) ==
  IF res.hit
  THEN [render |-> rad, alpha |-> 1, albedo |-> res.albedo,
        normal |-> res.normal, hits |-> 1]
  ELSE IF ~params.envhidden /\ has_environment
  THEN [render |-> rad, alpha |-> 1, albedo |-> 1, normal |-> ray, hits |-> 1]
  ELSE [render |-> 0, alpha |-> 0, albedo |-> 0, normal |-> ray, hits |-> 0]

\* variant: every sample enters with weight 1 / 2
accumulate_half(a, b, sample) == lerp(a, b, 1)

\* auto weight = 1.0f / (sample + 1); lerp(state.render[ij], ..., weight)
accumulate(a, b, sample) == lerp(a, b, sample)

\* the camera ray, the integrator's result and what the sample contributes
sampled(state, ij, params) ==
  LET cam  == rand2f(rand2f(pixel_rng(state, ij)))       \* sample_camera
      ray  == cam.state % 2                        \* -ray.d
      res  == sampler(params, ray, cam)
      rad  == clamp_radiance(finite_or_zero(res.radiance))
  IN  [cam |-> cam, res |-> res, c |-> contribution(res, rad, ray, params)]

trace_sample(state, ij, sample, params, fault) ==
  IF get_trace_sampler_func(params) = "sampler unknown"
  THEN [state |-> state, exc |-> "sampler unknown"]
  ELSE
    LET cam == sampled(state, ij, params).cam
        res == sampled(state, ij, params).res
    IN
    IF fault
    THEN [state |-> [state EXCEPT !.rngs[ij] = cam], exc |-> "bad_alloc"]
    ELSE LET c == sampled(state, ij, params).c IN
         [state |-> [state EXCEPT
                      !.rngs[ij]   = res.rng,
                      !.render[ij] = accumulate(@, c.render, sample),
                      !.alpha[ij]  = accumulate(@, c.alpha, sample),
                      !.albedo[ij] = accumulate(@, c.albedo, sample),
                      !.normal[ij] = accumulate(@, c.normal, sample),
                      !.hits[ij]   = @ + c.hits,
                      !.log[ij]    = Append(@, sample)],
          exc |-> NoKind]

\* ---------------------------------------------------------------------------
\* make_trace_state
\* ---------------------------------------------------------------------------
\* pixels in the order range(resolution) visits them (rows outermost)
PixelOrder ==
  [k \in 1 .. Width * Height |-> <<(k - 1) % Width, (k - 1) \div Width>>]

PixelIndex(ij) == ij[2] * Width + ij[1] + 1

make_trace_state(params) ==
  [samples  |-> 0,
   render   |-> [ij \in Pixels |-> Zero],
   alpha    |-> [ij \in Pixels |-> Zero],
   albedo   |-> [ij \in Pixels |-> Zero],
   normal   |-> [ij \in Pixels |-> Zero],
   hits     |-> [ij \in Pixels |-> 0],
   rngs     |-> [ij \in Pixels |-> make_rng(params.seed, PixelIndex(ij))],
   denoised |-> IF params.denoise
                THEN [ij \in Pixels |-> Zero]
                ELSE [ij \in {} |-> Zero],
   \* history: the sample indices accumulated into each pixel, in order
   log      |-> [ij \in Pixels |-> <<>>]]

\* variant: the denoised buffer is left as it was
denoise_image_none(state) == state

\* denoise_image in a build without the external denoiser
denoise_image(state) == [state EXCEPT !.denoised = state.render]

\* ---------------------------------------------------------------------------
\* State
\* ---------------------------------------------------------------------------
VARIABLES
  params,    \* trace_params of the render
  nthreads,  \* what std::thread::hardware_concurrency() reports
  state,     \* trace_state
  context,   \* trace_context: stop, done, worker (slot of the future, 0 = none)
  caller,    \* the thread that calls the trace_* functions
  task,      \* the background lambdas launched by trace_start, per slot
  pf,        \* the activations of parallel_for_batch
  wk,        \* the workers of each activation
  faults,    \* integrator calls that may still raise
  path,      \* one call of an integrator: the locals of its path loop
  image,     \* the display image trace_preview writes
  scene,     \* scene_data: what the light set is built from
  lights,    \* trace_lights, once make_trace_lights has run
  call       \* one call of a library function: its arguments and its result

\* what the render functions leave alone
aux == <<path, image, scene, lights, call>>

vars ==
  <<params, nthreads, state, context, caller, task, pf, wk, faults, path, image,
    scene, lights, call>>

trace_default_seed == 1     \* params.seed

IdleWorker ==
  [pc |-> "idle", i |-> 0, j |-> 0, lo |-> 0, s |-> 0, exc |-> NoExc,
   late |-> FALSE,   \* history: has_error was set when the row was claimed
   after_stop |-> 0] \* history: trace_sample calls made with context.stop set

IdleBatch ==
  [n         |-> 0,          \* nthreads of this activation
   next_idx  |-> 0,
   has_error |-> FALSE,
   \* history of the activation
   claims    |-> [j \in 0 .. Height - 1 |-> 0],  \* fetch_add results per row
   started   |-> [j \in 0 .. Height - 1 |-> 0],  \* times a row began processing
   active    |-> [j \in 0 .. Height - 1 |-> 0],  \* workers inside the row now
   first_exc |-> NoExc,      \* the exception caught first in time
   late_rows |-> 0]          \* rows claimed after has_error was set and run

IdleTask == [pc |-> "none", exc |-> NoExc]

IdleCaller ==
  [pc |-> "idle", last |-> "none", exc |-> NoExc, new |-> 0,
   \* history: the render state when the last trace_samples or trace_start
   \* that did work was entered
   snap |-> <<>>,
   \* history: a trace_start launched a batch while another was running
   overlapped |-> FALSE]

make_trace_context == [stop |-> FALSE, done |-> FALSE, worker |-> 0]

ParamsSet(samplers, falsecolors, noparallels) ==
  [sampler    : samplers,
   falsecolor : falsecolors,
   batch      : 1 .. MaxBatch,
   samples    : {MaxSamples},
   noparallel : noparallels,
   denoise    : BOOLEAN,
   envhidden  : {FALSE},
   seed       : {trace_default_seed}]

InitWith(P, budget) ==
  /\ params \in P
  /\ nthreads \in 0 .. MaxThreads
  /\ state = make_trace_state(params)
  /\ context = make_trace_context
  /\ caller = IdleCaller
  /\ task = [t \in Slots |-> IdleTask]
  /\ pf = [b \in Batches |-> IdleBatch]
  /\ wk = [b \in Batches |-> [w \in Workers |-> IdleWorker]]
  /\ faults = budget

FaultChoices == IF faults > 0 THEN BOOLEAN ELSE {FALSE}

\* ---------------------------------------------------------------------------
\* parallel_for_batch
\* ---------------------------------------------------------------------------
\* the loop that launches one std::async per hardware thread
Spawn(b) ==
  /\ pf' = [pf EXCEPT ![b] = [IdleBatch EXCEPT !.n = nthreads]]
  /\ wk' = [wk EXCEPT ![b] =
              [w \in Workers |->
                 IF w <= nthreads THEN [IdleWorker EXCEPT !.pc = "claim"]
                 ELSE IdleWorker]]

\* variant: the function passed by trace_start does not look at context.stop
RECURSIVE LoopTop_NoStop(_, _, _, _)
LoopTop_NoStop(b, i, lo, s) ==
  IF s < lo + params.batch
  THEN [pc |-> "sample", i |-> i, lo |-> lo, s |-> s]
  ELSE IF i + 1 < Width
  THEN LoopTop_NoStop(b, i + 1, state.samples, state.samples)
  ELSE [pc |-> "claim", i |-> 0, lo |-> 0, s |-> 0]

\* The function object passed to parallel_for_batch, from the top of its
\* sample loop for pixel (i, j) on: trace_samples (b = 0) loops over
\* range(state.samples, state.samples + params.batch); trace_start (b > 0)
\* also returns when context.stop is set.  When the function returns, the
\* row loop calls it for the next column, which reads state.samples again.
\* Result: where the worker performs its next trace_sample, or that the
\* row is finished.
RECURSIVE LoopTop(_, _, _, _)
LoopTop(b, i, lo, s) ==
  IF s < lo + params.batch /\ ~(b # 0 /\ context.stop)
  THEN [pc |-> "sample", i |-> i, lo |-> lo, s |-> s]
  ELSE IF i + 1 < Width
  THEN LoopTop(b, i + 1, state.samples, state.samples)
  ELSE [pc |-> "claim", i |-> 0, lo |-> 0, s |-> 0]

\* variant: the counter is read and incremented without atomicity, so a
\* worker can be handed the index another worker already took
WorkerClaim_Stale(b, w) ==
  /\ wk[b][w].pc = "claim"
  /\ \E j \in {pf[b].next_idx, IF pf[b].next_idx > 0 THEN pf[b].next_idx - 1
                                 ELSE 0} :
     /\ pf' = [pf EXCEPT ![b].next_idx = @ + 1,
                         ![b].claims = IF j < Height
                                       THEN [@ EXCEPT ![j] = @ + 1] ELSE @]
     /\ wk' = [wk EXCEPT ![b][w] =
                 IF j >= Height THEN [@ EXCEPT !.pc = "done"]
                 ELSE [@ EXCEPT !.pc = "check", !.j = j,
                                !.late = pf[b].has_error]]
  /\ UNCHANGED <<params, nthreads, state, context, caller, task, faults, aux>>

\* auto j = next_idx.fetch_add(1); if (j >= num[1]) break;
WorkerClaim(b, w) ==
  /\ wk[b][w].pc = "claim"
  /\ LET j == pf[b].next_idx IN
     /\ pf' = [pf EXCEPT ![b].next_idx = j + 1,
                         ![b].claims = IF j < Height
                                       THEN [@ EXCEPT ![j] = @ + 1] ELSE @]
     /\ wk' = [wk EXCEPT ![b][w] =
                 IF j >= Height THEN [@ EXCEPT !.pc = "done"]
                 ELSE [@ EXCEPT !.pc = "check", !.j = j,
                                !.late = pf[b].has_error]]
  /\ UNCHANGED <<params, nthreads, state, context, caller, task, faults, aux>>

\* if (has_error) break;
HasError(b) == pf[b].has_error

\* the has_error test, then the row loop enters the function for column 0
WorkerCheck(b, w) ==
  /\ wk[b][w].pc = "check"
  /\ IF HasError(b)
     THEN /\ wk' = [wk EXCEPT ![b][w].pc = "done"]
          /\ pf' = pf
     ELSE LET me == wk[b][w]
              nx == LoopTop(b, 0, state.samples, state.samples)
          IN /\ wk' = [wk EXCEPT ![b][w] =
                         [@ EXCEPT !.pc = nx.pc, !.i = nx.i, !.lo = nx.lo,
                                   !.s = nx.s]]
             /\ pf' = [pf EXCEPT
                         ![b].started[me.j] = @ + 1,
                         ![b].active[me.j] = IF nx.pc = "claim" THEN @ ELSE @ + 1,
                         ![b].late_rows = IF me.late THEN @ + 1 ELSE @]
  /\ UNCHANGED <<params, nthreads, state, context, caller, task, faults, aux>>

\* A worker of trace_start: trace_sample(state, scene, bvh, lights, ij,
\* sample, params), then either the next test of the sample loop or
\* catch (...) { has_error = true; throw; }
WorkerSample(b, w) ==
  /\ wk[b][w].pc = "sample"
  /\ \E fault \in FaultChoices :
       LET me == wk[b][w]
           r  == trace_sample(state, <<me.i, me.j>>, me.s, params, fault)
           nx == LoopTop(b, me.i, me.lo, me.s + 1)
           e  == [kind |-> r.exc, by |-> w]
       IN /\ state' = r.state
          /\ faults' = IF fault THEN faults - 1 ELSE faults
          /\ IF r.exc = NoKind
             THEN /\ wk' = [wk EXCEPT ![b][w] =
                              [@ EXCEPT !.pc = nx.pc, !.i = nx.i, !.lo = nx.lo,
                                        !.s = nx.s,
                                        !.after_stop = IF context.stop
                                                       THEN @ + 1 ELSE @]]
                  /\ pf' = [pf EXCEPT ![b].active[me.j] =
                              IF nx.pc = "claim" THEN @ - 1 ELSE @]
             ELSE /\ wk' = [wk EXCEPT ![b][w] =
                              [@ EXCEPT !.pc = "done", !.exc = e,
                                        !.after_stop = IF context.stop
                                                       THEN @ + 1 ELSE @]]
                  /\ pf' = [pf EXCEPT
                              ![b].has_error = TRUE,
                              ![b].active[me.j] = @ - 1,
                              ![b].first_exc = IF @ = NoExc THEN e ELSE @]
  /\ UNCHANGED <<params, nthreads, context, caller, task, aux>>

\* The row loop of a worker of trace_samples, for (i < num[0]) func({i, j}),
\* from the call at column i, sample s on: the function passed by
\* trace_samples reads nothing another thread writes during the batch, so
\* the row runs to its end or to the call that raises.  The call numbered
\* `f` raises in the integrator (0: none does).
RECURSIVE RowRun(_, _, _, _, _, _, _)
RowRun(st, i, j, s, lo, f, k) ==
  IF i >= Width THEN [state |-> st, exc |-> NoKind]
  ELSE IF s >= lo + params.batch
  THEN RowRun(st, i + 1, j, st.samples, st.samples, f, k)
  ELSE LET r == trace_sample(st, <<i, j>>, s, params, k = f) IN
       IF r.exc # NoKind THEN r
       ELSE RowRun(r.state, i, j, s + 1, lo, f, k + 1)

WorkerRow(w) ==
  /\ wk[0][w].pc = "sample"
  /\ \E f \in 0 .. (IF faults > 0 THEN Width * params.batch ELSE 0) :
       LET me == wk[0][w]
           r  == RowRun(state, me.i, me.j, me.s, me.lo, f, 1)
           e  == [kind |-> r.exc, by |-> w]
       IN /\ state' = r.state
          /\ faults' = IF r.exc = "bad_alloc" THEN faults - 1 ELSE faults
          /\ IF r.exc = NoKind
             THEN /\ wk' = [wk EXCEPT ![0][w].pc = "claim"]
                  /\ pf' = [pf EXCEPT ![0].active[me.j] = @ - 1]
             ELSE /\ wk' = [wk EXCEPT ![0][w] =
                              [@ EXCEPT !.pc = "done", !.exc = e]]
                  /\ pf' = [pf EXCEPT
                              ![0].has_error = TRUE,
                              ![0].active[me.j] = @ - 1,
                              ![0].first_exc = IF @ = NoExc THEN e ELSE @]
  /\ UNCHANGED <<params, nthreads, context, caller, task, aux>>

\* for (auto& f : futures) f.get();  every get waits for its worker; a get
\* that throws unwinds through the vector of futures, and the destructor of
\* a future made by std::async waits for its thread: the joining thread
\* leaves parallel_for_batch when every worker has finished
AllDone(b) == \A w \in 1 .. pf[b].n : wk[b][w].pc = "done"

\* variant: futures whose destructor does not wait, so the first get that
\* throws leaves while later workers still run
JoinReady_FirstFailure(b) ==
  \/ AllDone(b)
  \/ \E w \in 1 .. pf[b].n :
       /\ wk[b][w].pc = "done" /\ wk[b][w].exc # NoExc
       /\ \A v \in 1 .. w - 1 : wk[b][v].pc = "done"

JoinReady(b) == AllDone(b)

\* what leaves parallel_for_batch: the exception of the first future, in the
\* order of the vector, that holds one
Thrown(b) ==
  LET bad == {w \in 1 .. pf[b].n : wk[b][w].exc # NoExc} IN
  IF bad = {} THEN NoExc
  ELSE wk[b][CHOOSE w \in bad : \A v \in bad : w <= v].exc

\* the activation is over: its locals are destroyed
EndBatch(b) ==
  /\ pf' = [pf EXCEPT ![b] = IdleBatch]
  /\ wk' = [wk EXCEPT ![b] = [w \in Workers |-> IdleWorker]]

\* ---------------------------------------------------------------------------
\* trace_samples (synchronous)
\* ---------------------------------------------------------------------------
NoBackground == \A t \in Slots : task[t].pc \in {"none", "ready"}

\* the caller can make a call: it is not inside one, and no earlier call
\* threw (an exception that escapes a trace call ends the run)
CanCall == caller.pc = "idle" /\ caller.last \notin {"samples_exc", "cancel_exc"}

\* the no-parallel loops: calls 1 .. n of trace_sample in program order,
\* pixels outermost, the call numbered `f` raises (0: none does)
RECURSIVE SerialRun(_, _, _, _, _)
SerialRun(st, k, lo, p, f) ==
  IF k > Width * Height * p.batch THEN [state |-> st, exc |-> NoExc]
  ELSE LET ij == PixelOrder[((k - 1) \div p.batch) + 1]
           r  == trace_sample(st, ij, lo + ((k - 1) % p.batch), p, k = f)
       IN  IF r.exc # NoKind
           THEN [state |-> r.state, exc |-> [kind |-> r.exc, by |-> 0]]
           ELSE SerialRun(r.state, k + 1, lo, p, f)

\* state.samples += params.batch; denoise when requested
FinishBatch(st, p) ==
  LET st1 == [st EXCEPT !.samples = @ + p.batch] IN
  IF p.denoise /\ DOMAIN st1.denoised # {} THEN denoise_image(st1) ELSE st1

\* if (state.samples >= params.samples) return;
TraceSamplesNoop ==
  /\ CanCall
  /\ NoBackground
  /\ state.samples >= params.samples
  /\ caller' = [caller EXCEPT !.last = "samples_noop", !.exc = NoExc,
                              !.snap = state]
  /\ UNCHANGED <<params, nthreads, state, context, task, pf, wk, faults, aux>>

TraceSamplesSerial ==
  /\ CanCall
  /\ NoBackground
  /\ state.samples < params.samples
  /\ params.noparallel
  /\ \E f \in 0 .. (IF faults > 0 THEN Width * Height * params.batch ELSE 0) :
       LET r == SerialRun(state, 1, state.samples, params, f) IN
       /\ state' = IF r.exc = NoExc THEN FinishBatch(r.state, params)
                   ELSE r.state
       /\ faults' = IF f = 0 THEN faults ELSE faults - 1
       /\ caller' = [caller EXCEPT
                       !.last = IF r.exc = NoExc THEN "samples" ELSE "samples_exc",
                       !.exc = r.exc, !.snap = state]
  /\ UNCHANGED <<params, nthreads, context, task, pf, wk, aux>>

TraceSamplesParallel ==
  /\ CanCall
  /\ NoBackground
  /\ state.samples < params.samples
  /\ ~params.noparallel
  /\ Spawn(0)
  /\ caller' = [caller EXCEPT !.pc = "samples_join", !.exc = NoExc,
                              !.snap = state]
  /\ UNCHANGED <<params, nthreads, state, context, task, faults, aux>>

\* variant: the sample count and the denoised buffer are updated whether
\* or not parallel_for_batch threw
TraceSamplesReturn_Finish ==
  /\ caller.pc = "samples_join"
  /\ JoinReady(0)
  /\ state' = FinishBatch(state, params)
  /\ caller' = [caller EXCEPT
                  !.pc = "idle",
                  !.last = IF Thrown(0) = NoExc THEN "samples" ELSE "samples_exc",
                  !.exc = Thrown(0)]
  /\ EndBatch(0)
  /\ UNCHANGED <<params, nthreads, context, task, faults, aux>>

\* parallel_for_batch returns or throws, trace_samples finishes
TraceSamplesReturn ==
  /\ caller.pc = "samples_join"
  /\ JoinReady(0)
  /\ state' = IF Thrown(0) = NoExc THEN FinishBatch(state, params) ELSE state
  /\ caller' = [caller EXCEPT
                  !.pc = "idle",
                  !.last = IF Thrown(0) = NoExc THEN "samples" ELSE "samples_exc",
                  !.exc = Thrown(0)]
  /\ EndBatch(0)
  /\ UNCHANGED <<params, nthreads, context, task, faults, aux>>

\* ---------------------------------------------------------------------------
\* trace_start, trace_cancel, trace_done (asynchronous)
\* ---------------------------------------------------------------------------
FreeSlot == IF context.worker = 1 THEN 2 ELSE 1

\* variant: the flags are reset before the sample count is tested
TraceStartNoop_Reset ==
  /\ CanCall
  /\ state.samples >= params.samples
  /\ context' = [context EXCEPT !.stop = FALSE, !.done = FALSE]
  /\ caller' = [caller EXCEPT !.last = "start_noop", !.exc = NoExc]
  /\ UNCHANGED <<params, nthreads, state, task, pf, wk, faults, aux>>

\* if (state.samples >= params.samples) return;
TraceStartNoop ==
  /\ CanCall
  /\ state.samples >= params.samples
  /\ caller' = [caller EXCEPT !.last = "start_noop", !.exc = NoExc]
  /\ UNCHANGED <<params, nthreads, state, context, task, pf, wk, faults, aux>>

\* context.worker = <new future>: the old shared state is released, which
\* waits for a task launched by std::async that is not ready yet
ReleaseReady ==
  IF context.worker = 0 THEN TRUE ELSE task[context.worker].pc = "ready"

\* stop = false; done = false; std::async launches the lambda
TraceStart ==
  /\ CanCall
  /\ state.samples < params.samples
  /\ context' = [context EXCEPT !.stop = FALSE, !.done = FALSE]
  /\ task' = [task EXCEPT ![FreeSlot] =
                [IdleTask EXCEPT !.pc = "begin"]]
  /\ caller' = [caller EXCEPT
                  !.pc = "start_assign", !.new = FreeSlot, !.exc = NoExc,
                  !.snap = state,
                  !.overlapped = @ \/ ~ReleaseReady]
  /\ UNCHANGED <<params, nthreads, state, pf, wk, faults, aux>>

TraceStartAssign ==
  /\ caller.pc = "start_assign"
  /\ ReleaseReady
  /\ task' = IF context.worker = 0 THEN task
             ELSE [task EXCEPT ![context.worker] = IdleTask]
  /\ context' = [context EXCEPT !.worker = caller.new]
  /\ caller' = [caller EXCEPT !.pc = "idle", !.last = "start", !.new = 0]
  /\ UNCHANGED <<params, nthreads, state, pf, wk, faults, aux>>

\* context.stop = true; if (context.worker.valid()) ...
TraceCancel ==
  /\ CanCall
  /\ context' = [context EXCEPT !.stop = TRUE]
  /\ caller' = IF context.worker # 0
               THEN [caller EXCEPT !.pc = "cancel_get", !.exc = NoExc]
               ELSE [caller EXCEPT !.last = "cancel", !.exc = NoExc]
  /\ UNCHANGED <<params, nthreads, state, task, pf, wk, faults, aux>>

\* context.worker.get(): waits for the lambda, rethrows what it threw
\* variant: trace_cancel sets the flag and returns without waiting
GetReady_NoWait == TRUE

GetReady == task[context.worker].pc = "ready"

TraceCancelGet ==
  /\ caller.pc = "cancel_get"
  /\ GetReady
  /\ caller' = [caller EXCEPT
                  !.pc = "idle",
                  !.exc = task[context.worker].exc,
                  !.last = IF task[context.worker].exc = NoExc
                           THEN "cancel" ELSE "cancel_exc"]
  /\ task' = [task EXCEPT ![context.worker] =
                IF @.pc = "ready" THEN IdleTask ELSE @]
  /\ context' = [context EXCEPT !.worker = 0]
  /\ UNCHANGED <<params, nthreads, state, pf, wk, faults, aux>>

\* return context.done
TraceDone ==
  /\ CanCall
  /\ caller' = [caller EXCEPT
                  !.last = IF context.done THEN "done_true" ELSE "done_false"]
  /\ UNCHANGED <<params, nthreads, state, context, task, pf, wk, faults, aux>>

\* ---------------------------------------------------------------------------
\* the lambda trace_start runs in the background, per slot
\* ---------------------------------------------------------------------------
\* if (context.stop) return; parallel_for_batch(...)
TaskBegin(t) ==
  /\ task[t].pc = "begin"
  /\ IF context.stop
     THEN /\ task' = [task EXCEPT ![t].pc = "ready"]
          /\ UNCHANGED <<pf, wk>>
     ELSE /\ task' = [task EXCEPT ![t].pc = "join"]
          /\ Spawn(t)
  /\ UNCHANGED <<params, nthreads, state, context, caller, faults, aux>>

\* parallel_for_batch threw: the exception is stored in the future
TaskThrown(t) ==
  /\ task[t].pc = "join"
  /\ JoinReady(t)
  /\ Thrown(t) # NoExc
  /\ task' = [task EXCEPT ![t].pc = "ready", ![t].exc = Thrown(t)]
  /\ EndBatch(t)
  /\ UNCHANGED <<params, nthreads, state, context, caller, faults, aux>>

\* parallel_for_batch returned: state.samples += params.batch
TaskAdvance(t) ==
  /\ task[t].pc = "join"
  /\ JoinReady(t)
  /\ Thrown(t) = NoExc
  /\ state' = [state EXCEPT !.samples = @ + params.batch]
  /\ task' = [task EXCEPT ![t].pc = "post"]
  /\ EndBatch(t)
  /\ UNCHANGED <<params, nthreads, context, caller, faults, aux>>

\* if (context.stop) return; denoise when requested; context.done = true
TaskPost(t) ==
  /\ task[t].pc = "post"
  /\ IF context.stop
     THEN /\ task' = [task EXCEPT ![t].pc = "ready"]
          /\ UNCHANGED <<state, context>>
     ELSE /\ task' = [task EXCEPT ![t].pc = "ready"]
          /\ state' = IF params.denoise /\ DOMAIN state.denoised # {}
                      THEN denoise_image(state) ELSE state
          /\ context' = [context EXCEPT !.done = TRUE]
  /\ UNCHANGED <<params, nthreads, caller, pf, wk, faults, aux>>

\* ---------------------------------------------------------------------------
\* The path loops of the integrators (trace_path ... trace_furnace)
\* ---------------------------------------------------------------------------
MaxBounces == 5          \* largest params.bounces

opacity_limit  == 128    \* if (opbounce++ > 128) break;
roulette_start == 3      \* if (bounce > 3) { ... russian roulette ... }
eyelight_min   == 4      \* bounce < max(params.bounces, 4)

Integrators     == Samplers \ {"falsecolor"}
VolumeSamplers  == {"path", "pathdirect", "pathmis"}     \* keep a volume_stack
NeeSamplers     == {"pathdirect", "pathmis", "lightsampling"}  \* next_emission
OpacitySamplers == Integrators \ {"pathtest"}            \* handle opacity
RouletteSamplers == Integrators \ {"eyelight"}           \* russian roulette

\* weights: non-negative rationals, and one non-finite value
NonFiniteWeight == <<1, 0>>
One       == <<1, 1>>
Half      == <<1, 2>>
rr_cap    == <<99, 100>>   \* (float)0.99

isfinite(w) == w[2] # 0

RatMul(a, b) ==
  IF ~isfinite(a) \/ ~isfinite(b) THEN NonFiniteWeight
  ELSE Norm(a[1] * b[1], a[2] * b[2])

\* a / b for finite a and finite b > 0
RatDiv(a, b) == Norm(a[1] * b[2], a[2] * b[1])

RatLess(a, b) == a[1] * b[2] < b[1] * a[2]

RatMin(a, b) == IF RatLess(b, a) THEN b ELSE a

\* what one scattering event can multiply the weight by: bsdfcos / pdf,
\* times eval_transmittance / sample_transmittance_pdf inside a volume (the
\* ratio is taken as 1 at an opacity continuation)
Factors == {Zero, Half, One, NonFiniteWeight}
\* lengths of the runs of see-through surfaces a ray crosses in a row
SkipRuns == {1, 2, opacity_limit + 1}
\* values of rand1f(rng) at the roulette
RandVals == {Zero, Half, rr_cap}

NoVertex == [kind |-> "none", added |-> FALSE, owed |-> FALSE]
NoRoulette ==
  [at |-> -1, prob |-> Zero, u |-> Zero, before |-> Zero, after |-> Zero,
   survived |-> FALSE]

\* the locals of a path loop at its first test, for params.bounces = n
StartPath(n) ==
  [bounces       |-> n,
   pc            |-> "loop",
   why           |-> "none",     \* history: what ended the loop
   bounce        |-> 0,
   opbounce      |-> 0,
   weight        |-> One,
   next_emission |-> TRUE,
   vol           |-> 0,          \* volume_stack.size()
   in_volume     |-> FALSE,      \* trace_furnace's flag
   \* history
   shaded        |-> 0,          \* iterations that reached a shading point
   skips         |-> 0,          \* opacity continuations performed
   skipped       |-> FALSE,      \* the last iteration was a continuation
   run           |-> 0,          \* opacity tests taken in a row
   prev_nee      |-> FALSE,      \* the last scattering event sampled a light
   vertex        |-> NoVertex,   \* emission accounting at the last vertex
   rr            |-> NoRoulette] \* the last roulette

IdlePath == [StartPath(0) EXCEPT !.pc = "idle"]

\* the bound in the for statement
loop_bound_plus(p) == p.bounces + 1

loop_bound(p) ==
  IF params.sampler = "eyelight"
  THEN (IF p.bounces > eyelight_min THEN p.bounces ELSE eyelight_min)
  ELSE p.bounces

\* the roulette test, variant: one bounce early
roulette_applies_early(bounce) == bounce >= roulette_start

roulette_applies(bounce) == bounce > roulette_start

Ended(p, why) == [p EXCEPT !.pc = "returned", !.why = why]

\* if (weight == 0 || !isfinite(weight)) break; the roulette; bounce++
end_iteration(p, u) ==
  IF p.weight = Zero \/ ~isfinite(p.weight) THEN Ended(p, "weight")
  ELSE IF params.sampler \in RouletteSamplers /\ roulette_applies(p.bounce)
  THEN LET rr_prob == RatMin(rr_cap, p.weight)
           rec == [at |-> p.bounce, prob |-> rr_prob, u |-> u,
                   before |-> p.weight, after |-> p.weight, survived |-> FALSE]
       IN  IF ~RatLess(u, rr_prob)
           THEN [Ended(p, "roulette") EXCEPT !.rr = rec]
           ELSE LET w == RatMul(p.weight, RatDiv(One, rr_prob)) IN
                [p EXCEPT !.weight = w, !.bounce = @ + 1,
                          !.rr = [rec EXCEPT !.after = w, !.survived = TRUE]]
  ELSE [p EXCEPT !.bounce = @ + 1]

RouletteDraws(p) ==
  IF params.sampler \in RouletteSamplers /\ roulette_applies(p.bounce)
  THEN RandVals ELSE {Zero}

\* the loop test fails
PathLoopEnd ==
  /\ path.pc = "loop"
  /\ path.bounce >= loop_bound(path)
  /\ path' = Ended(path, "bounces")
  /\ UNCHANGED <<params, nthreads, state, context, caller, task, pf, wk, faults,
                 image, scene, lights, call>>

InLoop == path.pc = "loop" /\ path.bounce < loop_bound(path)

\* trace_furnace: if (bounce > 0 && !in_volume) { ...; break; }
FurnaceExit ==
  params.sampler = "furnace" /\ path.bounce > 0 /\ ~path.in_volume

PathFurnaceExit ==
  /\ InLoop
  /\ FurnaceExit
  /\ path' = Ended(path, "furnace")
  /\ UNCHANGED <<params, nthreads, state, context, caller, task, pf, wk, faults,
                 image, scene, lights, call>>

\* the emission term is added at this vertex
adds_emission(p) ==
  IF params.sampler \in NeeSamplers THEN p.next_emission ELSE TRUE

\* if (!intersection.hit) { environment term; break; }
PathMiss ==
  /\ InLoop
  /\ ~FurnaceExit
  /\ LET seen == path.bounce > 0 \/ ~params.envhidden IN
     path' = [Ended(path, "miss") EXCEPT
                !.vertex = [kind  |-> IF seen THEN "miss" ELSE "hidden",
                            added |-> seen /\ adds_emission(path),
                            owed  |-> ~path.prev_nee]]
  /\ UNCHANGED <<params, nthreads, state, context, caller, task, pf, wk, faults,
                 image, scene, lights, call>>

\* the ray scatters inside the volume: distance < intersection.distance
PathVolume ==
  /\ InLoop
  /\ params.sampler \in VolumeSamplers
  /\ path.vol > 0
  /\ \E f \in Factors, u \in RouletteDraws(path),
        zero \in (IF params.sampler = "pathmis" THEN {FALSE} ELSE BOOLEAN) :
       LET p1 == [path EXCEPT
                    !.shaded = @ + 1,
                    !.skipped = FALSE, !.run = 0,
                    !.prev_nee = FALSE,
                    !.next_emission =
                       IF params.sampler = "pathmis" THEN TRUE ELSE @]
       IN  path' = IF zero THEN Ended(p1, "incoming")
                   ELSE end_iteration([p1 EXCEPT !.weight = RatMul(@, f)], u)
  /\ UNCHANGED <<params, nthreads, state, context, caller, task, pf, wk, faults,
                 image, scene, lights, call>>

\* if (material.opacity < 1 && rand1f(rng) >= material.opacity) {
\*   if (opbounce++ > 128) break;  ...; bounce -= 1; continue; }
skip(p) ==
  LET p1 == [p EXCEPT !.opbounce = @ + 1, !.skipped = TRUE, !.run = @ + 1] IN
  IF p.opbounce > opacity_limit THEN Ended(p1, "opacity")
  ELSE [p1 EXCEPT !.skips = @ + 1]

\* k iterations in a row that each take the opacity branch
RECURSIVE skip_run(_, _)
skip_run(p, k) ==
  IF k = 0 \/ p.pc # "loop" THEN p ELSE skip_run(skip(p), k - 1)

\* the ray crosses a maximal run of k see-through surfaces
PathSkip ==
  /\ InLoop
  /\ ~FurnaceExit
  /\ params.sampler \in OpacitySamplers
  /\ ~path.skipped
  /\ \E k \in SkipRuns : path' = skip_run(path, k)
  /\ UNCHANGED <<params, nthreads, state, context, caller, task, pf, wk, faults,
                 image, scene, lights, call>>

\* the incoming direction is tested against zero before the weight update
ChecksIncoming(delta) ==
  CASE params.sampler \in {"path", "pathtest"} -> ~delta
    [] params.sampler = "pathmis" -> FALSE
    [] OTHER -> TRUE

\* a surface point is shaded: emission, direct light, next direction
PathSurface ==
  /\ InLoop
  /\ ~FurnaceExit
  /\ \E delta \in BOOLEAN, f \in Factors, u \in RouletteDraws(path),
        crosses \in (IF params.sampler \in VolumeSamplers \cup {"furnace"}
                     THEN BOOLEAN ELSE {FALSE}) :
     \E zero \in (IF ChecksIncoming(delta) THEN BOOLEAN ELSE {FALSE}) :
       LET nee == params.sampler \in NeeSamplers
           p1 == [path EXCEPT
                    !.shaded = @ + 1,
                    !.skipped = FALSE, !.run = 0,
                    !.vertex = [kind  |-> "hit",
                                added |-> adds_emission(path),
                                owed  |-> ~path.prev_nee],
                    !.next_emission = IF nee THEN delta ELSE @,
                    !.prev_nee = nee /\ ~delta]
           p2 == [p1 EXCEPT
                    !.weight = RatMul(@, f),
                    !.vol = IF params.sampler \in VolumeSamplers /\ crosses
                            THEN 1 - @ ELSE @]
           p3 == end_iteration(p2, u)
       IN  path' =
             IF params.sampler = "eyelight" /\ ~delta THEN Ended(p1, "nondelta")
             ELSE IF zero THEN Ended(p1, "incoming")
             ELSE IF params.sampler = "furnace" /\ crosses /\ p3.pc = "loop"
             THEN [p3 EXCEPT !.in_volume = ~@]
             ELSE p3
  /\ UNCHANGED <<params, nthreads, state, context, caller, task, pf, wk, faults,
                 image, scene, lights, call>>

\* ---------------------------------------------------------------------------
\* trace_preview, get_image
\* ---------------------------------------------------------------------------
MaxPratio == 3           \* largest params.pratio

\* round(n / d) for n >= 0, d > 0
Round(n, d) == (2 * n + d) \div (2 * d)

\* params.resolution of the render: the longer side of the image
resolution == IF Width >= Height THEN Width ELSE Height

\* the image size make_trace_state derives from a resolution, for the
\* camera whose aspect is Width / Height
state_size(res) ==
  IF Width >= Height THEN <<res, Round(res * Height, Width)>>
  ELSE <<Round(res * Width, Height), res>>

PixelsOf(size) == (0 .. size[1] - 1) \X (0 .. size[2] - 1)

PixelOrderOf(size) ==
  [k \in 1 .. size[1] * size[2] |-> <<(k - 1) % size[1], (k - 1) \div size[1]>>]

\* make_trace_state for pparams: a state of the preview's size
make_preview_state(pparams, size) ==
  [samples  |-> 0,
   render   |-> [ij \in PixelsOf(size) |-> Zero],
   alpha    |-> [ij \in PixelsOf(size) |-> Zero],
   albedo   |-> [ij \in PixelsOf(size) |-> Zero],
   normal   |-> [ij \in PixelsOf(size) |-> Zero],
   hits     |-> [ij \in PixelsOf(size) |-> 0],
   rngs     |-> [ij \in PixelsOf(size) |->
                   make_rng(pparams.seed, ij[2] * size[1] + ij[1] + 1)],
   denoised |-> IF pparams.denoise
                THEN [ij \in PixelsOf(size) |-> Zero]
                ELSE [ij \in {} |-> Zero],
   log      |-> [ij \in PixelsOf(size) |-> <<>>]]

\* the sample loops of trace_samples over a state of the given size, from
\* call k on: every pixel, samples 0 .. batch - 1
RECURSIVE preview_run(_, _, _, _)
preview_run(st, k, p, size) ==
  IF k > size[1] * size[2] * p.batch THEN [state |-> st, exc |-> NoExc]
  ELSE LET ij == PixelOrderOf(size)[((k - 1) \div p.batch) + 1]
           r  == trace_sample(st, ij, (k - 1) % p.batch, p, FALSE)
       IN  IF r.exc # NoKind
           THEN [state |-> r.state, exc |-> [kind |-> r.exc, by |-> 0]]
           ELSE preview_run(r.state, k + 1, p, size)

\* trace_samples(pstate, ..., pparams): the loops run in the caller, or in
\* the workers of parallel_for_batch (none when the platform reports 0)
preview_samples(pstate, pparams, size) ==
  LET r == IF pparams.noparallel \/ nthreads >= 1
           THEN preview_run(pstate, 1, pparams, size)
           ELSE [state |-> pstate, exc |-> NoExc]
  IN  IF r.exc # NoExc THEN r
      ELSE [state |-> FinishBatch(r.state, pparams), exc |-> NoExc]

\* get_image: the denoised buffer unless it is empty
get_image(st) ==
  LET src == IF DOMAIN st.denoised = {} THEN st.render ELSE st.denoised IN
  [ij \in DOMAIN st.render |-> src[ij]]

\* get_denoised_image in a build without the external denoiser
get_denoised_image(st) == [ij \in DOMAIN st.render |-> st.render[ij]]

Clamp(x, lo, hi) == IF x < lo THEN lo ELSE IF x > hi THEN hi ELSE x

\* clamp(ij / params.pratio, {0, 0}, preview.size() - 1)
preview_index(ij, pratio, size) ==
  <<Clamp(ij[1] \div pratio, 0, size[1] - 1),
    Clamp(ij[2] \div pratio, 0, size[2] - 1)>>

\* what a read outside the preview image can yield
Garbage == {Zero, One}

\* variant: the preview batch is run on the render state itself
TracePreview_OnState ==
  /\ CanCall
  /\ NoBackground
  /\ LET r == SerialRun(state, 1, state.samples, params, 0) IN
     /\ state' = r.state
     /\ image' = get_image(r.state)
     /\ caller' = [caller EXCEPT !.last = "preview", !.exc = NoExc]
  /\ UNCHANGED <<params, nthreads, context, task, pf, wk, faults, path, scene,
                 lights, call>>

TracePreview ==
  /\ CanCall
  /\ NoBackground
  /\ \E pratio \in 1 .. MaxPratio :
       LET size    == state_size(resolution \div pratio)
           pparams == [params EXCEPT !.samples = 1]
           r       == preview_samples(make_preview_state(pparams, size),
                                      pparams, size)
           preview == get_image(r.state)
       IN  \* history: the ratio, the preview's size, samples and pixels
           /\ call' = [fn |-> "trace_preview",
                       arg |-> [pratio |-> pratio, size |-> size],
                       done |-> r.exc = NoExc,
                       result |-> [log |-> r.state.log, preview |-> preview]]
           /\ IF r.exc # NoExc
              THEN /\ image' = image
                   /\ caller' = [caller EXCEPT !.last = "preview_exc",
                                               !.exc = r.exc]
              ELSE /\ image' \in
                        [Pixels -> {preview[pij] : pij \in PixelsOf(size)}
                                     \cup Garbage]
                   /\ \A ij \in Pixels :
                        preview_index(ij, pratio, size) \in PixelsOf(size)
                          => image'[ij] = preview[preview_index(ij, pratio, size)]
                   /\ caller' = [caller EXCEPT !.last = "preview", !.exc = NoExc]
  /\ UNCHANGED <<params, nthreads, state, context, task, pf, wk, faults, path,
                 scene, lights>>

\* ---------------------------------------------------------------------------
\* make_trace_lights
\* ---------------------------------------------------------------------------
MaxInstances    == 2     \* largest scene.instances.size()
MaxElements     == 2     \* largest shape.triangles.size(), shape.quads.size()
MaxEnvironments == 1     \* largest scene.environments.size()

invalidid == -1

SeqsUpTo(S, n) == UNION {[1 .. k -> S] : k \in 0 .. n}

\* an instance with what its material and its shape contribute
InstanceSet ==
  [emission : 0 .. 1, triangles : 0 .. MaxElements, quads : 0 .. MaxElements]

EnvironmentSet == [emission : 0 .. 1]

SceneSet ==
  [instances    : SeqsUpTo(InstanceSet, MaxInstances),
   environments : SeqsUpTo(EnvironmentSet, MaxEnvironments)]

\* triangle_area, quad_area of element idx
element_area(idx) == 1

\* the running sum written into elements_cdf, for n elements
RECURSIVE cumulative(_)
cumulative(n) ==
  IF n = 0 THEN <<>>
  ELSE LET c == cumulative(n - 1) IN
       Append(c, element_area(n - 1) + (IF n = 1 THEN 0 ELSE c[n - 1]))

\* variant: every instance is treated as emissive
is_emissive_always(x) == TRUE

\* !(emission == vec3f{0, 0, 0})
is_emissive(x) == x.emission # 0

\* the entries the first loop adds for instances handle .. size - 1
RECURSIVE instance_lights(_, _)
instance_lights(sc, handle) ==
  IF handle >= Len(sc.instances) THEN <<>>
  ELSE LET inst == sc.instances[handle + 1]
           rest == instance_lights(sc, handle + 1)
       IN  IF ~is_emissive(inst) THEN rest
           ELSE IF inst.triangles = 0 /\ inst.quads = 0 THEN rest
           ELSE <<[instance     |-> handle,
                   environment  |-> invalidid,
                   elements_cdf |-> IF inst.quads # 0 THEN cumulative(inst.quads)
                                    ELSE cumulative(inst.triangles)]>> \o rest

\* the entries the second loop adds for the environments
RECURSIVE environment_lights(_, _)
environment_lights(sc, handle) ==
  IF handle >= Len(sc.environments) THEN <<>>
  ELSE LET rest == environment_lights(sc, handle + 1) IN
       IF ~is_emissive(sc.environments[handle + 1]) THEN rest
       ELSE <<[instance     |-> invalidid,
               environment  |-> handle,
               elements_cdf |-> <<>>]>> \o rest

make_trace_lights(sc) == instance_lights(sc, 0) \o environment_lights(sc, 0)

NoScene  == [instances |-> <<>>, environments |-> <<>>]
NoLights == [built |-> FALSE, lights |-> <<>>]

MakeTraceLights ==
  /\ ~lights.built
  /\ lights' = [built |-> TRUE, lights |-> make_trace_lights(scene)]
  /\ UNCHANGED <<params, nthreads, state, context, caller, task, pf, wk, faults,
                 path, image, scene, call>>

\* ---------------------------------------------------------------------------
\* sample_lights_pdf
\* ---------------------------------------------------------------------------
MaxPdfLights == 2     \* largest lights.lights.size() the pdf is taken over
MaxHits      == 2     \* most intersections of the ray with one light

RatAdd(a, b) ==
  IF ~isfinite(a) \/ ~isfinite(b) THEN NonFiniteWeight
  ELSE Norm(a[1] * b[2] + b[1] * a[2], a[2] * b[2])

\* the float quotient a / b with b >= 0: inf or nan when b is zero
fdiv(a, b) ==
  IF ~isfinite(a) \/ ~isfinite(b) \/ b = Zero THEN NonFiniteWeight
  ELSE RatDiv(a, b)

\* the elements of one kind in a shape: none, all of zero area, or some area
ElementKinds == {"none", "degenerate", "area"}

\* the sum of the areas of the elements of one kind
kind_area(kind) == IF kind = "area" THEN One ELSE Zero

\* elements_cdf.back() of an area light: the quads' table replaces the
\* triangles' one when the shape has quads
cdf_back(light) ==
  IF light.quads # "none" THEN kind_area(light.quads)
  ELSE kind_area(light.triangles)

\* distance_squared(lposition, position) and abs(dot(lnormal, direction)) of
\* one intersection; a ray parallel to an element does not intersect it
HitSet == [dist2 : {One}, absdot : {Half, One}]

\* area lights as make_trace_lights adds them, with the intersections of the
\* ray with the instance; only a shape with an element of some area is hit
InstanceLightSet ==
  {l \in [instance : {0}, environment : {invalidid},
          triangles : ElementKinds, quads : ElementKinds,
          hits : SeqsUpTo(HitSet, MaxHits)] :
     /\ ~(l.triangles = "none" /\ l.quads = "none")
     /\ (l.hits # <<>> => l.triangles = "area" \/ l.quads = "area")}

\* environment lights: with a texture, back is elements_cdf.back() and texel
\* is sample_discrete_pdf at the texel the direction falls in
EnvironmentLightSet ==
  {l \in [instance : {invalidid}, environment : {0}, emission_tex : BOOLEAN,
          back : {Zero, One}, texel : {Zero, One}] :
     /\ ~RatLess(l.back, l.texel)
     /\ (~l.emission_tex => l.back = Zero /\ l.texel = Zero)}

PdfLightSet == InstanceLightSet \cup EnvironmentLightSet

\* the solid angle of a texel, and 1 / (4 * pif)
texel_angle == <<1, 4>>
sphere_pdf  == <<1, 12>>

\* lpdf after the intersections k .. of the bounce loop
RECURSIVE instance_pdf(_, _)
instance_pdf(light, k) ==
  IF k > Len(light.hits) THEN Zero
  ELSE RatAdd(fdiv(light.hits[k].dist2,
                   RatMul(light.hits[k].absdot, cdf_back(light))),
              instance_pdf(light, k + 1))

\* what one light adds to pdf
light_pdf(light) ==
  IF light.instance # invalidid THEN instance_pdf(light, 1)
  ELSE IF light.environment # invalidid THEN
    IF light.emission_tex
    THEN fdiv(fdiv(light.texel, light.back), texel_angle)
    ELSE sphere_pdf
  ELSE Zero

RECURSIVE lights_pdf_sum(_, _)
lights_pdf_sum(ls, k) ==
  IF k > Len(ls) THEN Zero
  ELSE RatAdd(light_pdf(ls[k]), lights_pdf_sum(ls, k + 1))

sample_uniform_pdf(size) == fdiv(One, <<size, 1>>)

sample_lights_pdf(ls) ==
  RatMul(lights_pdf_sum(ls, 1), sample_uniform_pdf(Len(ls)))

NoCall == [fn |-> "none", arg |-> <<>>, done |-> FALSE, result |-> Zero]

SampleLightsPdf ==
  /\ call.fn = "sample_lights_pdf" /\ ~call.done
  /\ call' = [call EXCEPT !.done = TRUE, !.result = sample_lights_pdf(call.arg)]
  /\ UNCHANGED <<params, nthreads, state, context, caller, task, pf, wk, faults,
                 path, image, scene, lights>>

\* ---------------------------------------------------------------------------
\* eval_bsdfcos, eval_delta and their samplers
\* ---------------------------------------------------------------------------
MaterialTypes ==
  {"matte", "glossy", "reflective", "transparent", "refractive", "subsurface",
   "gltfpbr", "volumetric"}

\* the types each dispatch has a branch for
BsdfcosTypes ==
  {"matte", "glossy", "reflective", "transparent", "refractive", "subsurface",
   "gltfpbr"}
DeltaTypes == {"reflective", "transparent", "refractive", "volumetric"}

BsdfcosFunctions == {"eval_bsdfcos", "sample_bsdfcos", "sample_bsdfcos_pdf"}
DeltaFunctions   == {"eval_delta", "sample_delta", "sample_delta_pdf"}

\* material.roughness, a float: zero, two positive values, nan
Roughnesses == {Zero, Half, One, NonFiniteWeight}

\* a material point with the value the lobe of its type evaluates to for
\* the directions of the call (the length of the direction, for a sampler)
MaterialCallSet ==
  [type : MaterialTypes, roughness : Roughnesses, lobe : {Zero, Half, One}]

\* variant: the test never succeeds
roughness_is_zero_never(material) == FALSE

\* material.roughness == 0; false for nan, as is !(material.roughness != 0)
roughness_is_zero(material) == material.roughness = Zero

\* eval_bsdfcos, sample_bsdfcos, sample_bsdfcos_pdf: one dispatch
bsdfcos_dispatch(material) ==
  IF roughness_is_zero(material) THEN Zero
  ELSE IF material.type \in BsdfcosTypes THEN material.lobe
  ELSE Zero

\* eval_delta, sample_delta, sample_delta_pdf: one dispatch
delta_dispatch(material) ==
  IF ~roughness_is_zero(material) THEN Zero
  ELSE IF material.type \in DeltaTypes THEN material.lobe
  ELSE Zero

eval_bsdfcos(material)       == bsdfcos_dispatch(material)
sample_bsdfcos(material)     == bsdfcos_dispatch(material)
sample_bsdfcos_pdf(material) == bsdfcos_dispatch(material)
eval_delta(material)         == delta_dispatch(material)
sample_delta(material)       == delta_dispatch(material)
sample_delta_pdf(material)   == delta_dispatch(material)

Returns(fn, value) ==
  /\ call.fn = fn /\ ~call.done
  /\ call' = [call EXCEPT !.done = TRUE, !.result = value]
  /\ UNCHANGED <<params, nthreads, state, context, caller, task, pf, wk, faults,
                 path, image, scene, lights>>

EvalBsdfcos      == Returns("eval_bsdfcos", eval_bsdfcos(call.arg))
EvalDelta        == Returns("eval_delta", eval_delta(call.arg))
SampleBsdfcos    == Returns("sample_bsdfcos", sample_bsdfcos(call.arg))
SampleDelta      == Returns("sample_delta", sample_delta(call.arg))
SampleBsdfcosPdf == Returns("sample_bsdfcos_pdf", sample_bsdfcos_pdf(call.arg))
SampleDeltaPdf   == Returns("sample_delta_pdf", sample_delta_pdf(call.arg))

\* ---------------------------------------------------------------------------
\* make_trace_bvh
\* ---------------------------------------------------------------------------
\* params.embreebvh, params.highqualitybvh, and what embree_supported()
\* returns in the build
BvhCallSet ==
  [embreebvh : BOOLEAN, highqualitybvh : BOOLEAN, embree_supported : BOOLEAN]

\* the trace_bvh returned: which of its two members is built, over how many
\* instances, and whether the call reported an error instead
make_trace_bvh(sc, arg) ==
  IF arg.embreebvh /\ arg.embree_supported
  THEN [error |-> FALSE, built |-> "ebvh", instances |-> Len(sc.instances),
        highquality |-> arg.highqualitybvh]
  ELSE [error |-> FALSE, built |-> "bvh", instances |-> Len(sc.instances),
        highquality |-> arg.highqualitybvh]

MakeTraceBvh ==
  /\ call.fn = "make_trace_bvh" /\ ~call.done
  /\ call' = [call EXCEPT !.done = TRUE,
                          !.result = make_trace_bvh(scene, call.arg)]
  /\ UNCHANGED <<params, nthreads, state, context, caller, task, pf, wk, faults,
                 path, image, scene, lights>>

\* ---------------------------------------------------------------------------
\* The accumulators of a pixel over its samples
\* ---------------------------------------------------------------------------
MaxMeanSamples == 3     \* samples accumulated into one pixel

\* what an accumulator can hold before sample 0
InitialValues == {Zero, One, <<7, 2>>}

\* trace_sample for the next sample index of a pixel; the contributions of
\* the pixel are kept as history
AccumulateSample ==
  /\ call.fn = "trace_sample"
  /\ \E ij \in Pixels :
       /\ Len(call.arg[ij]) < MaxMeanSamples
       /\ state' = trace_sample(state, ij, Len(call.arg[ij]), params,
                                FALSE).state
       /\ call' = [call EXCEPT
                     !.arg[ij] = Append(@, sampled(state, ij, params).c)]
  /\ UNCHANGED <<params, nthreads, context, caller, task, pf, wk, faults,
                 path, image, scene, lights>>

\* ---------------------------------------------------------------------------
\* The two dispatches over params.sampler, called on their own
\* ---------------------------------------------------------------------------
GetTraceSamplerFunc ==
  Returns("get_trace_sampler_func", get_trace_sampler_func(call.arg))

IsSamplerLit == Returns("is_sampler_lit", is_sampler_lit(call.arg))

\* ---------------------------------------------------------------------------
\* sample_lights
\* ---------------------------------------------------------------------------
\* (int)(r * size) for a rational r in [0, 1)
scaled_index(r, size) == (r[1] * size) \div r[2]

\* sample_uniform(size, r): clamp((int)(r * size), 0, size - 1)
sample_uniform(size, r) == Clamp(scaled_index(r, size), 0, size - 1)

\* sample_discrete(cdf, r): the first entry above r * cdf.back(), clamped
\* to the table
sample_discrete(cdf, r) ==
  LET back == cdf[Len(cdf)]
      idx  == Cardinality({k \in 1 .. Len(cdf) : cdf[k] * r[2] <= r[1] * back})
  IN  Clamp(idx, 0, Len(cdf) - 1)

\* the element kind sample_lights takes the element index for:
\* (!shape.triangles.empty()) ? sample_triangle(ruv) : ruv
sampled_kind(inst) == IF inst.triangles # 0 THEN "triangles" ELSE "quads"

\* sample_lights up to the use of the element: the light chosen, and for an
\* area light the element drawn from its table.  An index outside
\* lights.lights reads whatever lies there.
SampleLights ==
  /\ lights.built
  /\ call.fn = "none"
  /\ \E rl \in RandVals, rel \in RandVals :
       LET light_id == sample_uniform(Len(lights.lights), rl) IN
       IF light_id \in 0 .. Len(lights.lights) - 1
       THEN LET light == lights.lights[light_id + 1] IN
            call' = [fn |-> "sample_lights", arg |-> <<rl, rel>>, done |-> TRUE,
                     result |->
                       [light_id |-> light_id,
                        instance |-> light.instance,
                        element  |-> IF light.instance # invalidid
                                     THEN sample_discrete(light.elements_cdf, rel)
                                     ELSE 0]]
       ELSE \E inst \in {invalidid} \cup (0 .. MaxInstances - 1),
               elem \in 0 .. MaxElements :
              call' = [fn |-> "sample_lights", arg |-> <<rl, rel>>,
                       done |-> TRUE,
                       result |-> [light_id |-> light_id, instance |-> inst,
                                   element |-> elem]]
  /\ UNCHANGED <<params, nthreads, state, context, caller, task, pf, wk, faults,
                 path, image, scene, lights>>

\* ---------------------------------------------------------------------------
\* Specifications
\* ---------------------------------------------------------------------------
Worker(b) ==
  \E w \in Workers :
    \/ WorkerClaim(b, w)
    \/ WorkerCheck(b, w)
    \/ WorkerSample(b, w)

SyncWorker ==
  \E w \in Workers :
    \/ WorkerClaim(0, w)
    \/ WorkerCheck(0, w)
    \/ WorkerRow(w)

\* synchronous rendering: repeated trace_samples
\* no integrator call is being followed
SceneIdle == scene = NoScene /\ lights = NoLights

CallIdle == call = NoCall

AuxIdle == path = IdlePath /\ image = [ij \in Pixels |-> Zero] /\ SceneIdle
           /\ CallIdle

InitSync ==
  /\ InitWith(ParamsSet({"path", "unknown"}, {"normal"}, BOOLEAN), MaxFaults)
  /\ AuxIdle

NextSync ==
  \/ TraceSamplesNoop
  \/ TraceSamplesSerial
  \/ TraceSamplesParallel
  \/ TraceSamplesReturn
  \/ SyncWorker

SpecSync == InitSync /\ [][NextSync]_vars

\* every sampler and false-color selection, rendered single-threaded
InitDispatch ==
  /\ InitWith(ParamsSet(Samplers \cup {"unknown"}, FalseColors \cup {"unknown"},
                        {TRUE}), 0)
  /\ AuxIdle

NextDispatch ==
  \/ TraceSamplesNoop
  \/ TraceSamplesSerial

SpecDispatch == InitDispatch /\ [][NextDispatch]_vars

\* asynchronous rendering: trace_start, trace_cancel, trace_done
Init ==
  /\ InitWith(ParamsSet({"path", "unknown"}, {"normal"}, {FALSE}), 0)
  /\ AuxIdle

Next ==
  \/ TraceStartNoop
  \/ TraceStart
  \/ TraceStartAssign
  \/ TraceCancel
  \/ TraceCancelGet
  \/ TraceDone
  \/ \E t \in Slots :
       \/ TaskBegin(t)
       \/ TaskThrown(t)
       \/ TaskAdvance(t)
       \/ TaskPost(t)
       \/ Worker(t)

Spec == Init /\ [][Next]_vars

\* asynchronous rendering by at most one worker, with trace_samples called
\* once the target is reached
InitTarget ==
  /\ Init
  /\ nthreads = 1

NextTarget ==
  \/ Next
  \/ TraceSamplesNoop

SpecTarget == InitTarget /\ [][NextTarget]_vars

\* trace_start and trace_done with no trace_cancel and no worker that
\* raises, after any number of synchronous batches; the background task and
\* its workers are scheduled fairly, and so is the wait in trace_start
InitAnswer ==
  /\ InitWith(ParamsSet({"path"}, {"normal"}, {TRUE}), 0)
  /\ nthreads <= 1
  /\ AuxIdle

NextAnswer ==
  \/ TraceSamplesNoop
  \/ TraceSamplesSerial
  \/ TraceStartNoop
  \/ TraceStart
  \/ TraceStartAssign
  \/ TraceDone
  \/ \E t \in Slots :
       \/ TaskBegin(t)
       \/ TaskAdvance(t)
       \/ TaskPost(t)
       \/ Worker(t)

FairAnswer ==
  /\ WF_vars(TraceStartAssign)
  /\ \A t \in Slots :
       WF_vars(TaskBegin(t) \/ TaskAdvance(t) \/ TaskPost(t) \/ Worker(t))

SpecAnswer == InitAnswer /\ [][NextAnswer]_vars /\ FairAnswer

\* one call of an integrator for one camera ray
InitPath ==
  /\ InitWith({p \in ParamsSet(Integrators, {"normal"}, {TRUE}) :
                 p.batch = 1 /\ ~p.denoise}, 0)
  /\ \E n \in 0 .. MaxBounces : path = StartPath(n)
  /\ image = [ij \in Pixels |-> Zero]
  /\ SceneIdle
  /\ CallIdle

NextPath ==
  \/ PathLoopEnd
  \/ PathFurnaceExit
  \/ PathMiss
  \/ PathVolume
  \/ PathSkip
  \/ PathSurface

SpecPath == InitPath /\ [][NextPath]_vars

\* interactive rendering: previews between no-parallel batches
InitPreview ==
  /\ InitWith(ParamsSet({"path", "unknown"}, {"normal"}, BOOLEAN), 0)
  /\ AuxIdle

NextPreview ==
  \/ TraceSamplesNoop
  \/ TraceSamplesSerial
  \/ TracePreview

SpecPreview == InitPreview /\ [][NextPreview]_vars

\* building the light set of a scene
InitLights ==
  /\ InitWith({p \in ParamsSet({"path"}, {"normal"}, {TRUE}) :
                 p.batch = 1 /\ ~p.denoise}, 0)
  /\ nthreads = 1
  /\ path = IdlePath
  /\ image = [ij \in Pixels |-> Zero]
  /\ scene \in SceneSet
  /\ lights = NoLights
  /\ CallIdle

NextLights == MakeTraceLights

SpecLights == InitLights /\ [][NextLights]_vars

\* building the light set of a scene and sampling a light from it
NextSample ==
  \/ MakeTraceLights
  \/ SampleLights

SpecSample == InitLights /\ [][NextSample]_vars

\* what every specification of one library call starts from
InitLibrary ==
  /\ InitWith({p \in ParamsSet({"path"}, {"normal"}, {TRUE}) :
                 p.batch = 1 /\ ~p.denoise}, 0)
  /\ nthreads = 1
  /\ path = IdlePath
  /\ image = [ij \in Pixels |-> Zero]
  /\ SceneIdle

\* the pdf of a direction over a light set
InitPdf ==
  /\ InitLibrary
  /\ \E ls \in SeqsUpTo(PdfLightSet, MaxPdfLights) :
       /\ ls # <<>>
       /\ call = [fn |-> "sample_lights_pdf", arg |-> ls, done |-> FALSE,
                  result |-> Zero]

NextPdf == SampleLightsPdf

SpecPdf == InitPdf /\ [][NextPdf]_vars

\* one call of a material evaluation function
InitBsdf ==
  /\ InitLibrary
  /\ \E fn \in BsdfcosFunctions \cup DeltaFunctions, mat \in MaterialCallSet :
       call = [fn |-> fn, arg |-> mat, done |-> FALSE, result |-> Zero]

NextBsdf ==
  \/ EvalBsdfcos
  \/ EvalDelta
  \/ SampleBsdfcos
  \/ SampleDelta
  \/ SampleBsdfcosPdf
  \/ SampleDeltaPdf

SpecBsdf == InitBsdf /\ [][NextBsdf]_vars

\* building the acceleration structure of a scene
InitBvh ==
  /\ InitWith({p \in ParamsSet({"path"}, {"normal"}, {TRUE}) :
                 p.batch = 1 /\ ~p.denoise}, 0)
  /\ nthreads = 1
  /\ path = IdlePath
  /\ image = [ij \in Pixels |-> Zero]
  /\ scene \in SceneSet
  /\ lights = NoLights
  /\ \E arg \in BvhCallSet :
       call = [fn |-> "make_trace_bvh", arg |-> arg, done |-> FALSE,
               result |-> Zero]

NextBvh == MakeTraceBvh

SpecBvh == InitBvh /\ [][NextBvh]_vars

\* one call of a sampler dispatch, for every value of params.sampler
InitLit ==
  /\ InitLibrary
  /\ \E fn \in {"get_trace_sampler_func", "is_sampler_lit"},
        p \in ParamsSet(Samplers \cup {"unknown"}, FalseColors \cup {"unknown"},
                        {TRUE}) :
       call = [fn |-> fn, arg |-> p, done |-> FALSE, result |-> Zero]

NextLit ==
  \/ GetTraceSamplerFunc
  \/ IsSamplerLit

SpecLit == InitLit /\ [][NextLit]_vars

\* the samples of each pixel in index order, from any accumulator values
InitMean ==
  /\ params \in {p \in ParamsSet({"path"}, {"normal"}, {TRUE}) :
                   p.batch = 1 /\ ~p.denoise}
  /\ nthreads = 1
  /\ \E a \in InitialValues, b \in InitialValues, c \in InitialValues :
       /\ state = [make_trace_state(params) EXCEPT
                     !.render = [ij \in Pixels |-> a],
                     !.alpha  = [ij \in Pixels |-> a],
                     !.albedo = [ij \in Pixels |-> b],
                     !.normal = [ij \in Pixels |-> c]]
       \* history: the values the accumulators started from
       /\ call = [fn |-> "trace_sample", arg |-> [ij \in Pixels |-> <<>>],
                  done |-> FALSE, result |-> <<a, b, c>>]
  /\ context = make_trace_context
  /\ caller = IdleCaller
  /\ task = [t \in Slots |-> IdleTask]
  /\ pf = [b \in Batches |-> IdleBatch]
  /\ wk = [b \in Batches |-> [w \in Workers |-> IdleWorker]]
  /\ faults = 0
  /\ path = IdlePath
  /\ image = [ij \in Pixels |-> Zero]
  /\ SceneIdle

NextMean == AccumulateSample

SpecMean == InitMean /\ [][NextMean]_vars

\* ---------------------------------------------------------------------------
\* Claims
\* ---------------------------------------------------------------------------
\* samples lo .. lo + n - 1 in increasing order
Range(lo, n) == [k \in 1 .. n |-> lo + k - 1]

CancelReturned == caller.pc = "idle" /\ caller.last \in {"cancel", "cancel_exc"}

\* C1: after trace_cancel returns, every pixel has accumulated exactly
\* state.samples samples (stated for runs with at least one worker thread and
\* no trace_start issued while a batch was running).
C1_CancelConsistent ==
  (CancelReturned /\ nthreads >= 1 /\ ~caller.overlapped)
    => \A ij \in Pixels : Len(state.log[ij]) = state.samples

\* C2: when trace_cancel has returned, the background lambda and every worker
\* it spawned have finished, and the render state is not written while the
\* caller stays returned.
Quiet ==
  /\ \A t \in Slots : task[t].pc = "none"
  /\ \A b \in Slots : \A w \in Workers : wk[b][w].pc = "idle"

C2_CancelJoins ==
  /\ [](CancelReturned => Quiet)
  /\ [][CancelReturned => state' = state]_vars

\* a cancellation that cut a running batch short has returned
C2_Witness ==
  /\ CancelReturned
  /\ nthreads >= 1
  /\ ~caller.overlapped
  /\ \E ij \in Pixels : Len(state.log[ij]) > 0
  /\ \E ij \in Pixels : Len(state.log[ij]) < state.samples

\* C3: when trace_done returns true, the batch launched by the last
\* trace_start gave every pixel params.batch samples and advanced
\* state.samples by params.batch.
BatchComplete(snap) ==
  /\ state.samples = snap.samples + params.batch
  /\ \A ij \in Pixels :
       state.log[ij] = snap.log[ij] \o Range(snap.samples, params.batch)

C3_DoneMeansComplete ==
  (caller.pc = "idle" /\ caller.last = "done_true") => BatchComplete(caller.snap)

\* C4: a trace_samples call entered with state.samples < params.samples
\* returns after every pixel accumulated samples state.samples ..
\* state.samples + params.batch - 1 in increasing order, and state.samples
\* grew by params.batch.
C4_SamplesAdvanceOneBatch ==
  (caller.pc = "idle" /\ caller.last = "samples") => BatchComplete(caller.snap)

\* C5: with noparallel set, the render state after any number of
\* trace_samples calls that did not raise is a function of the parameters and
\* of the number of samples alone: every pixel holds what its own generator
\* and samples 0 .. state.samples - 1 produce from the state
\* make_trace_state built.
RECURSIVE PixelFold(_, _, _, _, _)
PixelFold(st, ij, k, m, p) ==
  IF k >= m THEN st
  ELSE PixelFold(trace_sample(st, ij, k, p, FALSE).state, ij, k + 1, m, p)

Reference(p, m) ==
  LET base    == make_trace_state(p)
      px(ij)  == PixelFold(base, ij, 0, m, p)
      render  == [ij \in Pixels |-> px(ij).render[ij]]
  IN  [samples  |-> m,
       render   |-> render,
       alpha    |-> [ij \in Pixels |-> px(ij).alpha[ij]],
       albedo   |-> [ij \in Pixels |-> px(ij).albedo[ij]],
       normal   |-> [ij \in Pixels |-> px(ij).normal[ij]],
       hits     |-> [ij \in Pixels |-> px(ij).hits[ij]],
       rngs     |-> [ij \in Pixels |-> px(ij).rngs[ij]],
       denoised |-> IF p.denoise /\ m > 0 THEN render ELSE base.denoised,
       log      |-> [ij \in Pixels |-> px(ij).log[ij]]]

NeverRaised == faults = MaxFaults /\ params.sampler \in Samplers

C5_SerialDeterministic ==
  (caller.pc = "idle" /\ params.noparallel /\ NeverRaised)
    => state = Reference(params, state.samples)

\* two single-sample batches were rendered without parallelism
C5_Witness ==
  /\ caller.pc = "idle" /\ params.noparallel /\ NeverRaised
  /\ params.batch = 1 /\ state.samples = 2
  /\ \E ij \in Pixels : state.hits[ij] > 0

\* C6: a parallel trace_samples that returns, run by one or more workers in
\* any interleaving, leaves the state the no-parallel loops produce from the
\* state the call was entered with.
SerialResult(st, p) ==
  FinishBatch(SerialRun(st, 1, st.samples, p, 0).state, p)

C6_ParallelEqualsSerial ==
  (caller.pc = "idle" /\ caller.last = "samples" /\ ~params.noparallel
     /\ nthreads >= 1)
    => state = SerialResult(caller.snap, params)

\* a batch of two samples per pixel was rendered by two workers
C6_Witness ==
  /\ caller.pc = "idle" /\ caller.last = "samples" /\ ~params.noparallel
  /\ nthreads = 2 /\ params.batch = 2
  /\ state.samples = caller.snap.samples + 2

\* C7: in one activation of parallel_for_batch every row is claimed by
\* exactly one worker, without an error every row is processed exactly once,
\* and no two workers are inside the same row.
C7_RowsOnce ==
  /\ \A j \in 0 .. Height - 1 : pf[0].active[j] <= 1
  /\ (caller.pc = "samples_join" /\ AllDone(0) /\ ~pf[0].has_error)
       => \A j \in 0 .. Height - 1 :
            pf[0].claims[j] = 1 /\ pf[0].started[j] = 1

\* C8 as stated: the exception that leaves parallel_for_batch is the one
\* that was captured first, every worker has stopped by then, and no row
\* claimed after the error flag was set is processed.
ThrowEnabled(b) == JoinReady(b) /\ Thrown(b) # NoExc

C8_FirstCaptured ==
  (caller.pc = "samples_join" /\ ThrowEnabled(0))
    => /\ Thrown(0) = pf[0].first_exc
       /\ AllDone(0)
       /\ pf[0].late_rows = 0

\* C8 amended: the exception that leaves parallel_for_batch is the one held
\* by the lowest-numbered worker that raised, every worker has stopped by
\* then, and no row claimed after the error flag was set is processed.
LowestRaised(b) ==
  {wk[b][w].exc : w \in {u \in 1 .. pf[b].n :
                           /\ wk[b][u].exc # NoExc
                           /\ \A v \in 1 .. u - 1 : wk[b][v].exc = NoExc}}

C8_LowestWorkerRethrown ==
  (caller.pc = "samples_join" /\ ThrowEnabled(0))
    => /\ LowestRaised(0) = {Thrown(0)}
       /\ AllDone(0)
       /\ pf[0].late_rows = 0

\* two workers raised, and the one rethrown was not the first captured
C8_Witness ==
  /\ caller.pc = "samples_join" /\ ThrowEnabled(0)
  /\ pf[0].first_exc # Thrown(0)
  /\ Thrown(0).by = 1

\* C9: when a parallel trace_samples ends by an exception, the return
\* changes nothing: what the workers wrote stays, state.samples has its
\* value from before the batch and the denoised buffer is untouched.
C9_AbortNoRollback ==
  [][(caller.pc = "samples_join" /\ caller'.pc = "idle" /\ caller'.exc # NoExc)
       => /\ state' = state
          /\ state'.samples = caller.snap.samples
          /\ state'.denoised = caller.snap.denoised]_vars

\* a batch ended by an exception after a pixel had been written
C9_Witness ==
  /\ caller.pc = "idle" /\ caller.last = "samples_exc" /\ ~params.noparallel
  /\ state.samples = caller.snap.samples
  /\ \E ij \in Pixels : state.log[ij] # caller.snap.log[ij]
  /\ \E ij \in Pixels : state.rngs[ij] # caller.snap.rngs[ij]

\* C10: a render returns normally only for a known sampler and, when the
\* sampler is falsecolor, a known false-color selection.
C10_UnknownSelectionsRaise ==
  (caller.pc = "idle" /\ caller.last = "samples")
    => /\ params.sampler \in Samplers
       /\ params.sampler = "falsecolor" => params.falsecolor \in FalseColors

C12_RouletteAfterThree ==
  LET r == path.rr IN
  /\ path.why = "roulette" => r.at > 3 /\ ~r.survived
  /\ r.at # -1 =>
       /\ r.at > 3
       /\ params.sampler # "eyelight"
       /\ r.prob = (IF RatLess(r.before, <<99, 100>>) THEN r.before
                    ELSE <<99, 100>>)
       /\ r.survived <=> RatLess(r.u, r.prob)
       /\ r.survived => RatMul(r.after, r.prob) = r.before
       /\ ~r.survived => path.why = "roulette"
  /\ (path.why = "bounces" /\ path.bounces > 4 /\ params.sampler # "eyelight")
       => r.at = path.bounces - 1 /\ r.survived

\* a path of weight 1/2 survived the roulette at bounce 4 with weight 1
C12_Witness ==
  /\ path.rr.survived /\ path.rr.at = 4
  /\ path.rr.before = Half /\ path.rr.after = One

\* C13: in trace_pathdirect and trace_lightsampling the emission term of a
\* hit, or the environment term of a miss, is added exactly when the
\* preceding scattering event took no explicit light sample.
C13_EmissionOncePerVertex ==
  (params.sampler \in {"pathdirect", "lightsampling"}
     /\ path.vertex.kind \in {"hit", "miss"})
    => (path.vertex.added <=> path.vertex.owed)

\* C14: a trace_preview call, whether it returns or throws, leaves the render
\* state, the context and every task and worker as they were; only the
\* display image can change.
C14_PreviewLeavesState ==
  [][caller'.last \in {"preview", "preview_exc"} =>
       /\ state' = state
       /\ context' = context
       /\ <<params, nthreads, task, pf, wk>> = <<params, nthreads, task, pf, wk>>'
    ]_vars

\* a preview was drawn over a render that already holds samples
C14_Witness ==
  /\ caller.last = "preview"
  /\ state.samples > 0
  /\ \E ij \in Pixels : image[ij] # Zero
  /\ \E ij \in Pixels : image[ij] # state.render[ij]

\* C15 as stated: the light set holds exactly one entry for every instance
\* with non-zero emission and for every environment with non-zero emission,
\* nothing else, and every entry names an instance or an environment, never
\* both and never neither.
EntriesFor(field, handle) ==
  {k \in 1 .. Len(lights.lights) : lights.lights[k][field] = handle}

EntriesWellFormed ==
  \A k \in 1 .. Len(lights.lights) :
    LET l == lights.lights[k] IN
    \/ /\ l.instance \in 0 .. Len(scene.instances) - 1
       /\ l.environment = -1
       /\ scene.instances[l.instance + 1].emission # 0
    \/ /\ l.environment \in 0 .. Len(scene.environments) - 1
       /\ l.instance = -1
       /\ scene.environments[l.environment + 1].emission # 0

EnvironmentsListed ==
  \A h \in 0 .. Len(scene.environments) - 1 :
    Cardinality(EntriesFor("environment", h)) =
      (IF scene.environments[h + 1].emission # 0 THEN 1 ELSE 0)

C15_OnePerEmitter ==
  lights.built =>
    /\ EntriesWellFormed
    /\ EnvironmentsListed
    /\ \A h \in 0 .. Len(scene.instances) - 1 :
         Cardinality(EntriesFor("instance", h)) =
           (IF scene.instances[h + 1].emission # 0 THEN 1 ELSE 0)

\* C15 amended: exactly one entry for every instance with non-zero emission
\* whose shape has triangles or quads, exactly one for every environment
\* with non-zero emission, nothing else, and every entry names an instance
\* or an environment, never both and never neither.
C15_OnePerAreaEmitter ==
  lights.built =>
    /\ EntriesWellFormed
    /\ EnvironmentsListed
    /\ \A h \in 0 .. Len(scene.instances) - 1 :
         LET inst == scene.instances[h + 1] IN
         Cardinality(EntriesFor("instance", h)) =
           (IF inst.emission # 0 /\ (inst.triangles > 0 \/ inst.quads > 0)
            THEN 1 ELSE 0)

\* a light set was built from an emissive mesh, an emissive instance without
\* triangles or quads, and an emissive environment
C15_Witness ==
  /\ lights.built
  /\ Len(lights.lights) = 2
  /\ Len(scene.instances) = 2 /\ Len(scene.environments) = 1
  /\ \A h \in 1 .. 2 : scene.instances[h].emission # 0
  /\ scene.instances[1].triangles = 0 /\ scene.instances[1].quads = 0

\* C16: sample_lights_pdf returns a finite value, and a light of zero total
\* area adds nothing to it.
C16_PdfFinite ==
  (call.fn = "sample_lights_pdf" /\ call.done) =>
    /\ isfinite(call.result)
    /\ \A k \in 1 .. Len(call.arg) :
         (call.arg[k].instance # invalidid /\ cdf_back(call.arg[k]) = Zero)
           => light_pdf(call.arg[k]) = Zero

\* C17: with roughness 0 eval_bsdfcos, sample_bsdfcos and sample_bsdfcos_pdf
\* return zero; with roughness other than 0 eval_delta, sample_delta and
\* sample_delta_pdf return zero; so eval_bsdfcos and eval_delta are never
\* both non-zero for the same material and directions.
C17_DeltaExclusive ==
  (call.fn \in BsdfcosFunctions \cup DeltaFunctions /\ call.done) =>
    /\ (call.fn \in BsdfcosFunctions /\ call.arg.roughness = Zero)
         => call.result = Zero
    /\ (call.fn \in DeltaFunctions /\ call.arg.roughness # Zero)
         => call.result = Zero
    /\ eval_bsdfcos(call.arg) = Zero \/ eval_delta(call.arg) = Zero

\* eval_bsdfcos returned for a reflective material of roughness 0 whose
\* rough lobe would not be zero
C17_Witness ==
  /\ call.fn = "eval_bsdfcos" /\ call.done
  /\ call.arg.type = "reflective"
  /\ call.arg.roughness = Zero
  /\ call.arg.lobe # Zero

\* C18: with params.denoise set and no external denoiser, after a completed
\* trace_samples batch state.denoised equals state.render pixel for pixel,
\* get_image returns the rendered image and get_denoised_image returns
\* state.render.
C18_DenoisePassThrough ==
  (params.denoise /\ caller.pc = "idle" /\ caller.last = "samples") =>
    /\ state.denoised = state.render
    /\ get_image(state) = state.render
    /\ get_denoised_image(state) = state.render

\* a batch completed with denoising requested and left a pixel that is not
\* black
C18_Witness ==
  /\ params.denoise
  /\ caller.pc = "idle" /\ caller.last = "samples"
  /\ state.samples > 0
  /\ \E ij \in Pixels : state.render[ij] # Zero

\* C19: when params.embreebvh asks for the library backend and the build
\* does not support it, make_trace_bvh reports an error instead of
\* returning a usable acceleration structure.
C19_MissingBackendFatal ==
  (call.fn = "make_trace_bvh" /\ call.done
     /\ call.arg.embreebvh /\ ~call.arg.embree_supported)
    => call.result.error

\* C20: once context.stop is set, a worker of an asynchronous batch makes
\* at most the one trace_sample call it had already entered: no worker
\* makes more than one trace_sample call with the flag set, and no worker
\* that has made one is about to make another.
C20_OneSampleAfterStop ==
  \A b \in Batches \ {0}, w \in Workers :
    /\ wk[b][w].after_stop <= 1
    /\ (wk[b][w].after_stop = 1 /\ context.stop) => wk[b][w].pc # "sample"

\* a worker made its one trace_sample call with the flag set while another
\* sample of its pixel was still to come
C20_Witness ==
  \E b \in Batches \ {0}, w \in Workers :
    /\ context.stop
    /\ wk[b][w].after_stop = 1
    /\ wk[b][w].pc \in {"claim", "done"}
    /\ params.batch > 1
    /\ state.log[<<0, wk[b][w].j>>] # <<>>
    /\ Len(state.log[<<0, wk[b][w].j>>]) % params.batch # 0

\* C21: every sample a pixel accumulates enters with a finite radiance that
\* does not exceed params.clamp (a non-finite one enters as zero), so the
\* accumulator stays finite and within the clamp.
InClampRange(v) == v[2] > 0 /\ v[1] >= 0 /\ v[1] <= params_clamp * v[2]

C21_FiniteAccumulation ==
  [][\A ij \in Pixels :
       (state'.log[ij] # state.log[ij] /\ InClampRange(state.render[ij])) =>
         /\ InClampRange(state'.render[ij])
         /\ \E r \in 0 .. params_clamp :
              state'.render[ij] =
                lerp(state.render[ij], r, state'.log[ij][Len(state'.log[ij])])
    ]_vars

\* a pixel that hit on every one of its two or more samples has just
\* accumulated one whose integrator returned a non-finite radiance
C21_Witness ==
  \E ij \in Pixels :
    /\ Len(state.log[ij]) >= 2
    /\ state.rngs[ij].state = RngMod - 1
    /\ state.render[ij] # Zero
    /\ state.hits[ij] = Len(state.log[ij])

\* C22: a pixel that has accumulated the samples 0 .. n-1 holds the
\* arithmetic mean of the n contributions in its render, albedo and normal
\* accumulators, whatever they held before sample 0.
RECURSIVE SumOf(_, _)
SumOf(cs, field) ==
  IF cs = <<>> THEN 0 ELSE cs[1][field] + SumOf(Tail(cs), field)

MeanOf(cs, field) == Norm(SumOf(cs, field), Len(cs))

C22_RunningMean ==
  call.fn = "trace_sample" =>
    \A ij \in Pixels :
      call.arg[ij] # <<>> =>
        /\ state.render[ij] = MeanOf(call.arg[ij], "render")
        /\ state.alpha[ij]  = MeanOf(call.arg[ij], "alpha")
        /\ state.albedo[ij] = MeanOf(call.arg[ij], "albedo")
        /\ state.normal[ij] = MeanOf(call.arg[ij], "normal")

\* a pixel whose accumulators did not start at zero has taken three samples
\* that did not all contribute the same radiance
C22_Witness ==
  /\ call.fn = "trace_sample"
  /\ \E ij \in Pixels :
       /\ Len(call.arg[ij]) = 3
       /\ call.arg[ij][1].render # call.arg[ij][2].render
       /\ Len(state.log[ij]) = 3
  /\ \A k \in 1 .. 3 : call.result[k] # Zero

\* C23: a call of trace_samples or trace_start made when state.samples has
\* reached params.samples returns at once: the render state, the context's
\* stop flag, done flag and worker, and the background tasks are as before.
SamplingCall ==
  /\ caller.pc = "idle"
  /\ \/ caller'.pc \in {"start_assign", "samples_join"}
     \/ /\ caller'.pc = "idle"
        /\ caller' # caller
        /\ caller'.last \in {"samples", "samples_exc", "samples_noop",
                             "start_noop"}

C23_NoopAtTarget ==
  [][(state.samples >= params.samples /\ SamplingCall) =>
       /\ state' = state
       /\ context' = context
       /\ task' = task
       /\ caller'.pc = "idle"]_vars

\* trace_start returned at once on a context whose batch had completed
C23_Witness ==
  /\ caller.pc = "idle" /\ caller.last = "start_noop"
  /\ state.samples >= params.samples
  /\ context.done /\ context.worker # 0

\* C24: the opacity limit ends a path only after more than 128
\* continuations in a row; continuations separated by a shaded bounce do
\* not add up toward the limit.
C24_ConsecutiveSkipsOnly ==
  (path.pc = "returned" /\ path.why = "opacity") => path.run > opacity_limit

\* C25: after trace_preview every pixel ij of the display image holds the
\* preview pixel at clamp(ij / pratio, 0, preview size - 1), that index is
\* inside the preview image, and every pixel of the preview state took
\* exactly one sample.
C25_NearestUpsample ==
  (call.fn = "trace_preview" /\ call.done) =>
    LET size == call.arg.size
        pratio == call.arg.pratio
    IN  /\ \A ij \in Pixels :
             /\ preview_index(ij, pratio, size) \in PixelsOf(size)
             /\ image[ij] = call.result.preview[preview_index(ij, pratio, size)]
        /\ \A pij \in PixelsOf(size) : Len(call.result.log[pij]) = 1

\* C26: after any call of trace_start, with no trace_cancel and no worker
\* that raises, trace_done eventually returns true.
C26_StartAnswered ==
  [](caller.last \in {"start", "start_noop"} => <>context.done)

\* C27: workers of two different background batches are never inside
\* trace_sample on the render state at the same moment.
Sampling(b) == \E w \in Workers : wk[b][w].pc = "sample"

C27_OneBatchAtATime ==
  \A b1 \in Batches \ {0}, b2 \in Batches \ {0} :
    b1 # b2 => ~(Sampling(b1) /\ Sampling(b2))

\* C28: for every sampler value that get_trace_sampler_func accepts,
\* is_sampler_lit returns a boolean; both raise "sampler unknown" only for
\* a value outside that set.
C28_DispatchTablesAgree ==
  (call.fn \in {"get_trace_sampler_func", "is_sampler_lit"} /\ call.done) =>
    /\ (call.result = "sampler unknown") = (call.arg.sampler \notin Samplers)
    /\ (call.fn = "is_sampler_lit" /\ call.arg.sampler \in Samplers)
         => call.result \in {"true", "false"}

\* C29: the light index sample_lights chooses is a valid index of
\* lights.lights, also when the light set is empty.
C29_LightIndexValid ==
  (call.fn = "sample_lights" /\ call.done) =>
    call.result.light_id \in 0 .. Len(lights.lights) - 1

\* C30: the elements_cdf of every area light is a non-decreasing table with
\* one entry per element of the kind sample_lights samples on the shape
\* (triangles when the shape has triangles, otherwise quads), and an
\* element index drawn from it is a valid element of that kind.
NonDecreasing(cdf) == \A k \in 1 .. Len(cdf) - 1 : cdf[k] <= cdf[k + 1]

C30_TableMatchesSampledKind ==
  /\ lights.built =>
       \A k \in 1 .. Len(lights.lights) :
         LET l == lights.lights[k] IN
         l.instance # invalidid =>
           /\ NonDecreasing(l.elements_cdf)
           /\ Len(l.elements_cdf) =
                scene.instances[l.instance + 1][sampled_kind(
                  scene.instances[l.instance + 1])]
  /\ (call.fn = "sample_lights" /\ call.done
        /\ call.result.light_id \in 0 .. Len(lights.lights) - 1
        /\ call.result.instance # invalidid) =>
       LET inst == scene.instances[call.result.instance + 1] IN
       call.result.element \in 0 .. inst[sampled_kind(inst)] - 1

====
